---- MODULE Spec2Model ----
(***************************************************************************)
(* Model of dummy_server.py: a single-threaded selector loop that accepts  *)
(* connections, reads from readable clients, tries to echo what it read,   *)
(* evicts clients on end-of-stream, and sends a fixed payload to every     *)
(* client at the end of each poll cycle.                                    *)
(*                                                                          *)
(* Bytes are tracked by provenance: a byte string is a sequence of         *)
(* segments <<src, lo, hi>> standing for bytes lo+1..hi of the stream that *)
(* client src wrote.  Two byte strings are equal iff they hold the same    *)
(* bytes of the same streams in the same order.                            *)
(***************************************************************************)
EXTENDS Integers, Sequences, FiniteSets, TLC

\* ---------------------------------------------------------------- bounds
MaxConns == 2        \* clients that ever connect
MaxCycles == 3       \* poll cycles explored
MaxSends == 2        \* writes the clients make, all connections together

\* ------------------------------------------------------ program constants
RECV_MAX == 4000     \* RECV_MAX=4000
Backlog == 100       \* server.listen(100)

Payload == "Lorem ipsum quod ecit sit dolor remen.  Amputate mixed bias is confusing and inadequate, but spindrift accumulation has been allowing the issue to go unnoticed for the past several thousand head of sheep in a herd where x is not negative.  If x is negative, go to page 99999999999.\nThis is line two of a two-line message.  Welcome to the future!\nSorry, we were just kidding.  It's actually three lines...\n"

Server == 0          \* the listening socket object
Conns == 1..MaxConns \* accepted connection objects, one per client

\* sizes a client writes at once: below one chunk, one chunk, above one chunk
\* (two writes of one chunk make a larger multiple of the chunk size)
SendSizes == {1, RECV_MAX, RECV_MAX + 1}

VARIABLES
    pc,        \* position of main(): poll, events, recv, readRet, handle, broadcast, crashed
    events,    \* events of this poll not yet taken by the for loop (line 59)
    registry,  \* file objects registered with sel
    clients,   \* the list clients
    closed,    \* connection objects on which close() was called
    nonblock,  \* connection objects on which setblocking(0) was called
    s,         \* the handle whose event is being processed (key.fileobj)
    db,        \* read(): accumulated bytes
    has_eof,   \* read(): has_eof
    bi,        \* position of the broadcast loop in clients (line 79)
    out,       \* per connection, the writes the server made to it, in order
    cycle,     \* completed poll cycles
    backlog,   \* clients waiting in the listen queue
    nconn,     \* clients that have connected so far
    peer,      \* client side of each connection: idle, open, shut, reset
    sent,      \* bytes each client has written
    nwrites,   \* writes the clients have made
    rcvd,      \* bytes of each client's stream the server has taken with recv
    rd0,       \* history: how much of s's stream was taken when read(s) was entered
    stopBy,    \* history: the recv outcome that ended the while loop of the last read()
    polled,    \* history: how many events the last select returned
    bsent,     \* history: targets of the broadcast sends since the last select
    eofSeen,   \* history: connections on which read() returned has_eof = True
    crashAt    \* history: the call whose exception ended main(), or "none"

vars == <<pc, events, registry, clients, closed, nonblock, s, db, has_eof, bi, out, cycle,
          backlog, nconn, peer, sent, nwrites, rcvd, rd0, stopBy, polled, bsent, eofSeen, crashAt>>

serverVars == <<pc, events, registry, clients, closed, nonblock, s, db, has_eof, bi, out, cycle,
                rd0, stopBy, polled, bsent, eofSeen, crashAt>>

\* ---------------------------------------------------------------- helpers
Range(q) == {q[i] : i \in 1..Len(q)}

Min(a, b) == IF a < b THEN a ELSE b

RECURSIVE Orders(_)
Orders(S) == IF S = {} THEN {<<>>}
             ELSE UNION {{<<x>> \o t : t \in Orders(S \ {x})} : x \in S}

\* bytes: length and concatenation (db += data)
RECURSIVE BLen(_)
BLen(b) == IF b = <<>> THEN 0 ELSE (b[1][3] - b[1][2]) + BLen(Tail(b))

Cat(a, b) ==
    IF a = <<>> THEN b
    ELSE IF b = <<>> THEN a
    ELSE LET l == a[Len(a)]
             h == b[1]
         IN IF l[1] = h[1] /\ l[3] = h[2]
            THEN SubSeq(a, 1, Len(a) - 1) \o <<(<<l[1], l[2], h[3]>>)>> \o Tail(b)
            ELSE a \o b

Seg(c, lo, hi) == IF lo < hi THEN <<(<<c, lo, hi>>)>> ELSE <<>>

Avail(c) == sent[c] - rcvd[c]

\* no recv has ended a read() for the event being handled
NoOutcome == [kind |-> "none", n |-> 0]

\* ------------------------------------------------------------------ state
Init ==
    /\ pc = "poll"
    /\ events = <<>>
    /\ registry = {Server}
    /\ clients = <<>>
    /\ closed = {}
    /\ nonblock = {}
    /\ s = Server
    /\ db = <<>>
    /\ has_eof = FALSE
    /\ bi = 1
    /\ out = [c \in Conns |-> <<>>]
    /\ cycle = 0
    /\ backlog = <<>>
    /\ nconn = 0
    /\ peer = [c \in Conns |-> "idle"]
    /\ sent = [c \in Conns |-> 0]
    /\ nwrites = 0
    /\ rcvd = [c \in Conns |-> 0]
    /\ rd0 = 0
    /\ stopBy = NoOutcome
    /\ polled = 0
    /\ bsent = <<>>
    /\ eofSeen = {}
    /\ crashAt = "none"

\* an uncaught exception leaves main(): the process ends where it stands
Crash(where) == pc' = "crashed" /\ crashAt' = where

\* ------------------------------------------------------------ the clients
\* The server looks at the client side of a connection in select (readiness
\* of every registered object) and in recv (the connection being read) only,
\* so a client step taken while the server is elsewhere is the same as that
\* step taken just before the next select or the next recv on its connection:
\* the clients move at those points, and a client that waits in the listen
\* queue moves once it is accepted.  A client's steps are not observable once
\* the server has closed the connection or the process has ended.
ClientTurn == pc = "poll"

Live(c) ==
    /\ c \in registry
    /\ c \notin closed
    /\ ClientTurn \/ (pc = "recv" /\ c = s)

ClientConnect ==
    /\ ClientTurn
    /\ nconn < MaxConns
    /\ Len(backlog) < Backlog
    /\ nconn' = nconn + 1
    /\ backlog' = Append(backlog, nconn + 1)
    /\ peer' = [peer EXCEPT ![nconn + 1] = "open"]
    /\ UNCHANGED <<serverVars, sent, nwrites, rcvd>>

ClientSend ==
    \E c \in Conns, n \in SendSizes :
        /\ Live(c)
        /\ peer[c] = "open"
        /\ nwrites < MaxSends
        /\ sent' = [sent EXCEPT ![c] = @ + n]
        /\ nwrites' = nwrites + 1
        /\ UNCHANGED <<serverVars, backlog, nconn, peer, rcvd>>

\* the client closes its write side
ClientShut ==
    \E c \in Conns :
        /\ Live(c)
        /\ peer[c] = "open"
        /\ peer' = [peer EXCEPT ![c] = "shut"]
        /\ UNCHANGED <<serverVars, backlog, nconn, sent, nwrites, rcvd>>

\* the client aborts the connection
ClientReset ==
    \E c \in Conns :
        /\ Live(c)
        /\ peer[c] \in {"open", "shut"}
        /\ peer' = [peer EXCEPT ![c] = "reset"]
        /\ UNCHANGED <<serverVars, backlog, nconn, sent, nwrites, rcvd>>

\* --------------------------------------------------------------- the loop
\* read-readiness of a registered file object
Ready(h) ==
    IF h = Server THEN backlog # <<>>
    ELSE Avail(h) > 0 \/ peer[h] \in {"shut", "reset"}

\* events = sel.select(timeout=1): the ready objects, in an unspecified order;
\* the empty list when the timeout passes
Select ==
    /\ pc = "poll"
    /\ cycle < MaxCycles
    /\ \E evs \in Orders({h \in registry : Ready(h)}) :
          events' = evs /\ polled' = Len(evs)
    /\ bsent' = <<>>
    /\ pc' = "events"
    /\ UNCHANGED <<nonblock, rd0, stopBy,
                   registry, clients, closed, s, db, has_eof, bi, out, cycle,
                   backlog, nconn, peer, sent, nwrites, rcvd, eofSeen, crashAt>>

\* mutant: the for loop stops one event short
EventsDoneEarly(evs) == Len(evs) <= 1

\* the for loop over events is exhausted
EventsDone(evs) == evs = <<>>

\* mutant: the test never holds
IsServerNever(h) == FALSE

\* s == server
IsServer(h) == h = Server

\* mutant: clients += [connection, connection]
AddClientTwice(cl, connection) == cl \o <<connection, connection>>

\* mutant: clients = [connection]
AddClientOnly(cl, connection) == <<connection>>

\* clients += [connection]
AddClient(cl, connection) == Append(cl, connection)

\* for key, mask in events: ends, and the broadcast loop starts
EndEvents ==
    /\ pc = "events"
    /\ EventsDone(events)
    /\ pc' = "broadcast"
    /\ bi' = 1
    /\ stopBy' = NoOutcome
    /\ UNCHANGED <<nonblock, rd0,
                   polled, events, registry, clients, closed, s, db, has_eof, out, cycle,
                   backlog, nconn, peer, sent, nwrites, rcvd, bsent,
                   eofSeen, crashAt>>

\* s == server: accept one pending connection, make it non-blocking, register
\* it, add it to clients
Accept ==
    /\ pc = "events"
    /\ ~EventsDone(events)
    /\ IsServer(Head(events))
    /\ backlog # <<>>
    /\ LET connection == Head(backlog) IN
          /\ nonblock' = nonblock \cup {connection}
          /\ registry' = registry \cup {connection}
          /\ clients' = AddClient(clients, connection)
    /\ backlog' = Tail(backlog)
    /\ events' = Tail(events)
    /\ s' = Head(events)
    /\ stopBy' = NoOutcome
    /\ UNCHANGED <<rd0,
                   polled, pc, closed, db, has_eof, bi, out, cycle, nconn, peer, sent,
                   nwrites, rcvd, bsent, eofSeen, crashAt>>

\* otherwise: read(s) is entered (has_eof = False, db = b'')
ReadStart ==
    /\ pc = "events"
    /\ ~EventsDone(events)
    /\ ~IsServer(Head(events))
    /\ s' = Head(events)
    /\ rd0' = IF Head(events) \in Conns THEN rcvd[Head(events)] ELSE 0
    /\ stopBy' = NoOutcome
    /\ events' = Tail(events)
    /\ db' = <<>>
    /\ has_eof' = FALSE
    /\ pc' = "recv"
    /\ UNCHANGED <<nonblock,
                   polled, registry, clients, closed, bi, out, cycle, backlog, nconn, peer,
                   sent, nwrites, rcvd, bsent, eofSeen, crashAt>>

\* ----------------------------------------------------------------- read()
\* what one socket.recv(RECV_MAX) on connection c can do now:
\*   data n  - n bytes, 1 <= n <= RECV_MAX, of what the client wrote and the
\*             server has not taken yet (all that fits, or only a first byte
\*             when the rest has not arrived);
\*   zero    - b'': the client shut its write side and nothing is left;
\*   block   - BlockingIOError: nothing has arrived (raised on a non-blocking
\*             socket only);
\*   reset   - ConnectionResetError, oserror - another OSError (a closed
\*             handle, or one that is no connection, gives OSError).
RecvOutcomes(c) ==
    IF c \in closed \/ c \notin Conns THEN {[kind |-> "oserror", n |-> 0]}
    ELSE {[kind |-> "data", n |-> k] :
              k \in {j \in {1, Min(Avail(c), RECV_MAX)} : j <= Avail(c)}}
         \cup (IF Avail(c) = 0 /\ peer[c] = "shut"
               THEN {[kind |-> "zero", n |-> 0]}
               ELSE {})
         \cup (IF c \in nonblock THEN {[kind |-> "block", n |-> 0]} ELSE {})
         \cup (IF peer[c] = "reset"
               THEN {[kind |-> "reset", n |-> 0], [kind |-> "oserror", n |-> 0]}
               ELSE {})

\* mutant: the ConnectionResetError clause only reports, like the
\* BlockingIOError clause
EofOnExceptionResetPass(kind) ==
    CASE kind = "block" -> FALSE
      [] kind = "oserror" -> TRUE
      [] kind = "reset" -> FALSE

\* the except clauses of read(): BlockingIOError leaves has_eof False; OSError
\* sets it, and so does ConnectionResetError (a subclass of OSError, caught by
\* the OSError clause that precedes its own)
EofOnException(kind) ==
    CASE kind = "block" -> FALSE
      [] kind = "oserror" -> TRUE
      [] kind = "reset" -> TRUE

\* mutant: db = data
ReadStepAssign(d, c, o) ==
    IF o.kind = "data"
    THEN [db |-> Seg(c, rcvd[c], rcvd[c] + o.n),
          has_eof |-> FALSE,
          stop |-> o.n < RECV_MAX]
    ELSE IF o.kind = "zero"
    THEN [db |-> d, has_eof |-> TRUE, stop |-> TRUE]
    ELSE [db |-> d, has_eof |-> (o.kind # "block"), stop |-> TRUE]

\* one pass of the while loop on connection c with db = d: the new db,
\* has_eof, and whether the loop is left
ReadStep(d, c, o) ==
    IF o.kind = "data"
    THEN [db |-> Cat(d, Seg(c, rcvd[c], rcvd[c] + o.n)),
          has_eof |-> FALSE,
          stop |-> o.n < RECV_MAX]
    ELSE IF o.kind = "zero"
    THEN [db |-> d, has_eof |-> TRUE, stop |-> TRUE]
    ELSE [db |-> d, has_eof |-> EofOnException(o.kind), stop |-> TRUE]

\* data = socket.recv(RECV_MAX) ... break / except
Recv ==
    /\ pc = "recv"
    /\ \E o \in RecvOutcomes(s) :
          LET r == ReadStep(db, s, o) IN
             /\ db' = r.db
             /\ has_eof' = r.has_eof
             /\ rcvd' = IF s \in Conns THEN [rcvd EXCEPT ![s] = @ + o.n] ELSE rcvd
             /\ pc' = IF r.stop THEN "readRet" ELSE "recv"
             /\ stopBy' = IF r.stop THEN o ELSE stopBy
    /\ UNCHANGED <<nonblock, rd0,
                   polled, events, registry, clients, closed, s, bi, out, cycle, backlog,
                   nconn, peer, sent, nwrites, bsent, eofSeen, crashAt>>

\* if has_eof: socket.close()
CloseIfEof(cl, c, eof) == IF eof THEN cl \cup {c} ELSE cl

\* if has_eof: socket.close(); return (has_eof, db)
ReadReturn ==
    /\ pc = "readRet"
    /\ closed' = CloseIfEof(closed, s, has_eof)
    /\ eofSeen' = IF has_eof THEN eofSeen \cup {s} ELSE eofSeen
    /\ pc' = "handle"
    /\ UNCHANGED <<nonblock, rd0, stopBy,
                   polled, events, registry, clients, s, db, has_eof, bi, out, cycle,
                   backlog, nconn, peer, sent, nwrites, rcvd, bsent, crashAt>>

\* --------------------------------------------------- echo and eviction
EchoRec(data) == [kind |-> "echo", data |-> data]
BcastRec == [kind |-> "bcast", data |-> Payload]

\* mutant: the data goes out with a call that exists, on the variable client
\* left by the broadcast loop (the last element of clients)
SocketWriteLast(o, c, data) ==
    IF clients = <<>> THEN [fault |-> TRUE, out |-> o]
    ELSE [fault |-> FALSE,
          out |-> [o EXCEPT ![clients[Len(clients)]] = Append(@, [kind |-> "echo", data |-> data])]]

\* s.write(data): a socket object has send, sendall and recv but no attribute
\* write, so the call raises AttributeError and nothing is written
SocketWrite(o, c, data) == [fault |-> TRUE, out |-> o]

\* if not eof: s.write(data); print(...)
Echo ==
    /\ pc = "handle"
    /\ ~has_eof
    /\ LET w == SocketWrite(out, s, db) IN
          IF w.fault
          THEN Crash("echo") /\ out' = out
          ELSE out' = w.out /\ pc' = "events" /\ crashAt' = crashAt
    /\ UNCHANGED <<nonblock, rd0, stopBy,
                   polled, events, registry, clients, closed, s, db, has_eof, bi, cycle,
                   backlog, nconn, peer, sent, nwrites, rcvd, bsent, eofSeen>>

\* mutant: the connection stays registered
UnregisterKeep(reg, c) == [fault |-> FALSE, registry |-> reg]

\* sel.unregister(c): raises (KeyError, or ValueError for a closed socket) when
\* c is not registered
Unregister(reg, c) ==
    IF c \in reg THEN [fault |-> FALSE, registry |-> reg \ {c}]
    ELSE [fault |-> TRUE, registry |-> reg]

\* mutant: nothing is removed from the list
RemoveNone(cl, c) == cl

\* while s in clients: clients.remove(s)
RECURSIVE RemoveAll(_, _)
RemoveAll(cl, c) ==
    IF cl = <<>> THEN <<>>
    ELSE IF Head(cl) = c THEN RemoveAll(Tail(cl), c)
    ELSE <<Head(cl)>> \o RemoveAll(Tail(cl), c)

\* mutant: the connection is unregistered and stays in the list
EvictStepUnregisterOnly(reg, cl, c) ==
    [fault |-> FALSE, registry |-> reg \ {c}, clients |-> cl]

\* the eviction step (lines 75-77) applied to registry reg and list cl
EvictStep(reg, cl, c) ==
    LET u == Unregister(reg, c) IN
       IF u.fault THEN [fault |-> TRUE, registry |-> reg, clients |-> cl]
       ELSE [fault |-> FALSE, registry |-> u.registry, clients |-> RemoveAll(cl, c)]

\* if eof: sel.unregister(s); while s in clients: clients.remove(s)
Evict ==
    /\ pc = "handle"
    /\ has_eof
    /\ LET e == EvictStep(registry, clients, s) IN
          /\ registry' = e.registry
          /\ clients' = e.clients
          /\ IF e.fault THEN Crash("evict") ELSE pc' = "events" /\ crashAt' = crashAt
    /\ UNCHANGED <<nonblock, rd0, stopBy,
                   polled, events, closed, s, db, has_eof, bi, out, cycle, backlog, nconn,
                   peer, sent, nwrites, rcvd, bsent, eofSeen>>

\* ------------------------------------------------------------ broadcast
\* client.send(payload) on a non-blocking socket: the payload is queued, or the
\* call raises (BlockingIOError when the peer does not drain its side,
\* BrokenPipeError or ConnectionResetError after an abort, OSError on a closed
\* handle)
SendOutcomes(c) == IF c \in closed THEN {"fault"} ELSE {"ok", "fault"}

\* mutant: the loop skips every other element
NextIndexSkip(i) == i + 2

\* for client in clients: the loop moves to the next element of the list
NextIndex(i) == i + 1

\* for client in clients: client.send(...)
BroadcastSend ==
    /\ pc = "broadcast"
    /\ bi <= Len(clients)
    /\ \E r \in SendOutcomes(clients[bi]) :
          IF r = "ok"
          THEN /\ out' = [out EXCEPT ![clients[bi]] = Append(@, BcastRec)]
               /\ bsent' = Append(bsent, clients[bi])
               /\ bi' = NextIndex(bi)
               /\ UNCHANGED <<pc, crashAt>>
          ELSE /\ Crash("send")
               /\ UNCHANGED <<out, bsent, bi>>
    /\ UNCHANGED <<nonblock, rd0, stopBy,
                   polled, events, registry, clients, closed, s, db, has_eof, cycle, backlog,
                   nconn, peer, sent, nwrites, rcvd, eofSeen>>

\* the broadcast loop is exhausted: back to while True
BroadcastDone ==
    /\ pc = "broadcast"
    /\ bi > Len(clients)
    /\ pc' = "poll"
    /\ cycle' = cycle + 1
    /\ UNCHANGED <<nonblock, rd0, stopBy,
                   polled, events, registry, clients, closed, s, db, has_eof, bi, out,
                   backlog, nconn, peer, sent, nwrites, rcvd, bsent, eofSeen,
                   crashAt>>

Next ==
    \/ ClientConnect
    \/ ClientSend
    \/ ClientShut
    \/ ClientReset
    \/ Select
    \/ EndEvents
    \/ Accept
    \/ ReadStart
    \/ Recv
    \/ ReadReturn
    \/ Echo
    \/ Evict
    \/ BroadcastSend
    \/ BroadcastDone

Spec == Init /\ [][Next]_vars

\* ================================================================ claims
Members == Range(clients)

Last(q) == q[Len(q)]

\* the bytes of the echo writes made to connection c, concatenated in order
RECURSIVE EchoedOf(_)
EchoedOf(q) ==
    IF q = <<>> THEN <<>>
    ELSE IF Head(q).kind = "echo" THEN Cat(Head(q).data, EchoedOf(Tail(q)))
    ELSE EchoedOf(Tail(q))

\* a connection that went through the eviction step
Evicted(c) == c \in closed /\ c \notin registry

\* C1 - Echo: once the handler of a client event is over and read() returned
\* end-of-stream = False with a buffer B of 1..RECV_MAX bytes that is all the
\* client wrote, the last write to that connection is B.
EchoProperty ==
    (/\ pc \in {"events", "crashed"}
     /\ crashAt \in {"none", "echo"}
     /\ s # Server
     /\ ~has_eof
     /\ BLen(db) \in 1..RECV_MAX
     /\ db = Seg(s, 0, sent[s]))
    => (out[s] # <<>> /\ Last(out[s]) = EchoRec(db))

\* C2 - Isolation: every write made to a connection b carries the broadcast
\* payload or bytes that b itself sent; no byte of another client's stream is
\* ever written to b.
Isolation ==
    \A b \in Conns : \A i \in 1..Len(out[b]) :
        \/ out[b][i] = BcastRec
        \/ /\ out[b][i].kind = "echo"
           /\ \A k \in 1..Len(out[b][i].data) : out[b][i].data[k][1] = b

\* two clients are connected and served, bytes of one of them were read and
\* the echo step acted on them
IsolationWitness ==
    \E a \in Members, b \in Members :
        /\ a # b
        /\ s = a
        /\ pc = "crashed" /\ crashAt = "echo"
        /\ BLen(db) > 0
        /\ db[1][1] = a
        /\ out[b] # <<>>

\* C3 - Eviction: a connection on which read() reported end-of-stream is no
\* target of a broadcast send afterwards: it is not among the members when a
\* broadcast runs, and no send of the current cycle went to it.
EvictionProperty ==
    /\ \A i \in 1..Len(bsent) : bsent[i] \notin eofSeen
    /\ pc = "broadcast" => Members \cap eofSeen = {}

\* a connection that used to get the broadcast was evicted, and a broadcast
\* that reached another connection has run since
EvictionWitness ==
    \E c \in eofSeen :
        /\ out[c] # <<>>
        /\ pc = "poll"
        /\ bsent # <<>>
        /\ Len(out[bsent[1]]) > Len(out[c])

\* C4 - Eviction is idempotent: the eviction step run again on an evicted
\* connection raises nothing and changes neither the registry nor the list.
SecondEvictionNoOp ==
    \A c \in Conns :
        Evicted(c) =>
            LET e == EvictStep(registry, clients, c) IN
               /\ ~e.fault
               /\ e.registry = registry
               /\ e.clients = clients

\* C5 - Broadcast: when a poll cycle has ended, the sends of its broadcast went
\* to the members of the list, each exactly once, and the last write to each
\* member is the payload.
BroadcastProperty ==
    (pc = "poll" /\ cycle > 0) =>
        /\ Range(bsent) = Members
        /\ \A c \in Members :
              /\ Cardinality({i \in 1..Len(bsent) : bsent[i] = c}) = 1
              /\ out[c] # <<>>
              /\ Last(out[c]) = BcastRec

\* a cycle whose poll returned no event ended with two clients connected
BroadcastWitness ==
    /\ pc = "poll"
    /\ cycle > 0
    /\ polled = 0
    /\ Len(clients) = 2
    /\ clients[1] # clients[2]
    /\ bsent = clients

\* C6 - Large payload: when a client that wrote more than RECV_MAX bytes and
\* then shut its write side has been evicted, the echo writes to it make up
\* all the bytes it wrote, in order.
LargePayloadEchoed ==
    \A c \in Conns :
        (Evicted(c) /\ peer[c] = "shut" /\ sent[c] > RECV_MAX)
            => EchoedOf(out[c]) = Seg(c, 0, sent[c])

\* C7 as stated - in every state a connection is in the list iff it is
\* registered and not closed.
ActiveSetInvariant ==
    \A c \in Conns : (c \in Members) <=> (c \in registry /\ c \notin closed)

\* the window between the close inside read() and the caller's eviction
InCloseWindow == pc = "handle" /\ has_eof

\* C7 - Active Connection Set, amended: outside the window between the close
\* inside read() and the eviction by the caller, a connection is in the list
\* iff it is registered and not closed; inside the window the connection being
\* handled is the only exception; and a connection leaves the registry in the
\* very step in which it leaves the list.
ActiveSetAtRest ==
    /\ [](\A c \in Conns :
            (InCloseWindow /\ c = s)
            \/ ((c \in Members) <=> (c \in registry /\ c \notin closed)))
    /\ [][\A c \in Conns :
            (c \in registry /\ c \notin registry')
            <=> (c \in Members /\ c \notin Range(clients'))]_vars

\* one connection was evicted while another one stays in the list
ActiveSetWitness ==
    \E c \in Conns, d \in Conns :
        /\ Evicted(c) /\ c \notin Members
        /\ d \in Members /\ d \in registry /\ d \notin closed
        /\ pc = "events"

\* C8 - Accept under load: the step that handles an event of the listening
\* socket adds one connection at the end of the list and registers it, and
\* leaves every connection already there in the list, in its place,
\* registered, open, and with the writes made to it unchanged.
AcceptFrame ==
    [][(/\ pc = "events"
        /\ events # <<>>
        /\ Head(events) = Server
        /\ events' = Tail(events))
       => (/\ Len(clients') = Len(clients) + 1
           /\ SubSeq(clients', 1, Len(clients)) = clients
           /\ Last(clients') \in registry'
           /\ registry \subseteq registry'
           /\ closed' = closed
           /\ out' = out
           /\ pc' = "events")]_vars

\* a connection was accepted while another one was connected, and the older
\* one got the broadcast before and after
AcceptWitness ==
    /\ Len(clients) = 2
    /\ bsent = clients
    /\ Len(out[clients[1]]) = 2
    /\ Len(out[clients[2]]) = 1

\* C9 - Broadcast ordering: while events of the cycle are left or one is being
\* processed no broadcast send of that cycle has been made, and the broadcast
\* runs only with no event left.
BroadcastOrdering ==
    /\ pc \in {"events", "recv", "readRet", "handle"} => bsent = <<>>
    /\ (pc = "broadcast" \/ bsent # <<>>) => events = <<>>

\* the broadcast runs in a cycle whose poll returned two events
BroadcastOrderingWitness ==
    /\ pc = "broadcast"
    /\ polled >= 2
    /\ bsent # <<>>

\* C10 - The loop runs on: no outcome of reading a client ends main().
LoopSurvivesReads == ~(pc = "crashed" /\ crashAt \in {"echo", "evict"})

\* C11 - Transient would-block: when the read() of an event ended on
\* BlockingIOError, it reported end-of-stream = False with what was
\* accumulated, the connection is open, registered and in the list, and the
\* loop goes on.
WouldBlockContinues ==
    (stopBy.kind = "block" /\ pc \notin {"readRet", "handle"})
        => /\ ~has_eof
           /\ db = Seg(s, rd0, rcvd[s])
           /\ s \notin closed /\ s \in registry /\ s \in Members
           /\ pc # "crashed"

\* the read() of the event being handled has left its while loop
ReadOver == pc \in {"readRet", "handle"}

EofHandling ==
    [][/\ \A c \in eofSeen' : out'[c] = out[c]
       /\ (pc = "handle" /\ has_eof /\ pc' # "handle")
             => (/\ s \in closed'
                 /\ s \notin registry'
                 /\ s \notin Range(clients')
                 /\ pc' = "events")]_vars

\* a connection was evicted on an end-of-stream that came with bytes, and no
\* byte was written back to it
EofHandlingWitness ==
    /\ pc = "events"
    /\ has_eof
    /\ stopBy.kind = "zero"
    /\ BLen(db) > 0
    /\ Evicted(s) /\ s \notin Members
    /\ EchoedOf(out[s]) = <<>>

\* the bookkeeping left by the handler of an event on connection s when the
\* recv that ends its read() has outcome kind k: read() (has_eof, close), then
\* the caller (eviction when eof)
Bookkeeping(k) ==
    LET r == ReadStep(db, s, [kind |-> k, n |-> 0])
        e == EvictStep(registry, clients, s)
    IN [closed |-> CloseIfEof(closed, s, r.has_eof),
        registry |-> IF r.has_eof THEN e.registry ELSE registry,
        clients |-> IF r.has_eof THEN e.clients ELSE clients,
        fault |-> r.has_eof /\ e.fault]

\* C14 - A reset and any other fault on read leave the bookkeeping of a clean
\* end-of-stream: from any state in which a recv is due, the three outcomes
\* give the same list, registry and closed handles; and after the handler of
\* an event whose read() ended on any of the three, the connection is closed,
\* unregistered and out of the list.
FaultLikeEof ==
    /\ pc = "recv" =>
          /\ Bookkeeping("reset") = Bookkeeping("zero")
          /\ Bookkeeping("oserror") = Bookkeeping("zero")
    /\ (pc = "events" /\ stopBy.kind \in {"zero", "reset", "oserror"})
          => (Evicted(s) /\ s \notin Members)

\* the handler of an event whose read() ended on a connection reset is over
FaultLikeEofWitness ==
    /\ pc = "events"
    /\ stopBy.kind = "reset"
    /\ Evicted(s)
    /\ Members # {}

\* C15 - A failed broadcast send does not stop the others: when a send of the
\* broadcast has raised, every other member of the list has been sent the
\* payload in that cycle.
SendFailureIsolated ==
    crashAt = "send" =>
        \A c \in Members \ {clients[bi]} : c \in Range(bsent)

\* the step that handles an event of the listening socket
AcceptTaken ==
    /\ pc = "events"
    /\ events # <<>>
    /\ Head(events) = Server
    /\ events' = Tail(events)

\* C16 - Accept step: handling one event of the listening socket takes
\* exactly one connection, the first, out of the listen queue, and that
\* connection is then non-blocking, registered and in the list; the registry
\* and the list grow by that connection and nothing else.
AcceptOne ==
    [][AcceptTaken =>
          LET c == Head(backlog) IN
             /\ backlog # <<>>
             /\ backlog' = Tail(backlog)
             /\ c \notin Members /\ c \notin registry
             /\ c \in nonblock'
             /\ registry' = registry \cup {c}
             /\ Range(clients') = Members \cup {c}
             /\ Len(clients') = Len(clients) + 1
             /\ Cardinality(Range(clients')) = Cardinality(Members) + 1]_vars

\* two clients waited in the listen queue and one event of the listening
\* socket was handled: one of them is in the list, the other still waits
AcceptOneWitness ==
    /\ pc = "events"
    /\ s = Server
    /\ Len(clients) = 1
    /\ clients[1] \in nonblock \cap registry
    /\ Len(backlog) = 1

\* C17 - The listening socket stays registered and open, is never in the
\* list, is never read as a client and never a target of the broadcast.
ListenerStays ==
    /\ Server \in registry
    /\ Server \notin closed
    /\ Server \notin Members
    /\ Server \notin Range(bsent)
    /\ pc \in {"recv", "readRet", "handle"} => s # Server
    /\ Server \notin eofSeen

\* accepts, an eviction and a broadcast have happened
ListenerStaysWitness ==
    /\ pc = "poll"
    /\ cycle >= 2
    /\ eofSeen # {}
    /\ bsent # <<>>
    /\ Server \in registry

NoDup(q) == \A i \in 1..Len(q), j \in 1..Len(q) : q[i] = q[j] => i = j

\* C18 - The list holds each connection at most once: so the removal loop
\* takes at most one entry out, and the sends of one broadcast go to distinct
\* connections.
NoDuplicates ==
    /\ NoDup(clients)
    /\ NoDup(bsent)
    /\ \A c \in Conns : Len(clients) - Len(RemoveAll(clients, c)) <= 1

\* after two accepts and an eviction, a broadcast has reached the connection
\* that is left
NoDuplicatesWitness ==
    /\ pc = "poll"
    /\ nconn = 2 /\ backlog = <<>>
    /\ Cardinality(eofSeen) = 1
    /\ Len(clients) = 1
    /\ bsent = clients

\* C19 - Broadcast targets are open: while the broadcast runs no member of the
\* list is closed, no send of it went to a closed handle, and the list holds a
\* closed handle only in the window between the close inside read() and the
\* eviction by the caller, and then only the connection being handled.
BroadcastTargetsOpen ==
    /\ pc = "broadcast" => Members \cap closed = {}
    /\ Range(bsent) \cap closed = {}
    /\ Members \cap closed # {} => (InCloseWindow /\ Members \cap closed = {s})

\* a broadcast send is made in a cycle in which a connection was closed and
\* evicted
BroadcastTargetsOpenWitness ==
    /\ pc = "broadcast"
    /\ polled > 0
    /\ has_eof /\ Evicted(s)
    /\ bsent # <<>>

====
